---- MODULE Spec2Model ----
(***************************************************************************)
(* bhqdbl: double-precision shadow properties for a single-precision host. *)
(*                                                                         *)
(* Numbers.  A finite double is modelled by the integer n standing for the *)
(* real n * 2^-30 (|n| < 2^30, so every modelled real lies in (-1, 1)).    *)
(* On this grid the conversion to single precision (24 significant bits,   *)
(* round to nearest, ties to even) and math.isclose are computed exactly   *)
(* with integer arithmetic.  NaN and the infinities are outside the grid.  *)
(*                                                                         *)
(* Python values are records [t, n, s]: t is the Python type ("float",     *)
(* "str", "None"), n the number of a float, s the characters of a str.     *)
(***************************************************************************)
EXTENDS Integers, Sequences, FiniteSets, TLC

\* ---------------------------------------------------------------- values

Unit == 2^30

Num(n) == [t |-> "float", n |-> n, s |-> <<>>]
Str(s) == [t |-> "str", n |-> 0, s |-> s]
None == [t |-> "None", n |-> 0, s |-> <<>>]

Abs(x) == IF x < 0 THEN -x ELSE x
Max2(a, b) == IF a >= b THEN a ELSE b

\* rel_tol=1e-5 and abs_tol=1e-9 of the math.isclose call, as denominators.
RelTolDen == 100000
AbsTolDen == 1000000000

\* A faulty comparison: plain equality instead of a tolerance.
IsCloseExact(a, b) == a = b

\* A faulty comparison: a relative tolerance of 1e-4.
IsCloseLoose(a, b) ==
    \/ a = b
    \/ Abs(a - b) <= Max2(Max2(Abs(a), Abs(b)) \div 10000, Unit \div AbsTolDen)

\* math.isclose(a, b, rel_tol=1e-5, abs_tol=1e-9) on grid numbers:
\* |a-b| <= max(rel_tol * max(|a|,|b|), abs_tol).  diff is an integer, so
\* diff <= x is diff <= floor(x).
IsClose(a, b) ==
    \/ a = b
    \/ Abs(a - b) <= Max2(Max2(Abs(a), Abs(b)) \div RelTolDen, Unit \div AbsTolDen)

\* The exponent of the leading bit of m >= 2^24 (m < 2^30).
LeadingBit(m) == CHOOSE e \in 24..29 : 2^e <= m /\ m < 2^(e + 1)

\* Round the magnitude m to 24 significant bits, ties to even.
RoundMagnitude(m) ==
    IF m < 2^24 THEN m
    ELSE LET q == 2^(LeadingBit(m) - 23)
             lo == (m \div q) * q
             r == m - lo
         IN  IF 2 * r < q THEN lo
             ELSE IF 2 * r > q THEN lo + q
             ELSE IF (lo \div q) % 2 = 0 THEN lo ELSE lo + q

\* Conversion of a double to the host's single-precision float.
RoundSingle(n) == IF n < 0 THEN -RoundMagnitude(-n) ELSE RoundMagnitude(n)

\* ------------------------------------------------------ float(new_value)

DigitChars == <<"0", "1", "2", "3", "4", "5", "6", "7", "8", "9">>
IsDigit(c) == \E i \in 1..10 : DigitChars[i] = c
DigitVal(c) == (CHOOSE i \in 1..10 : DigitChars[i] = c) - 1

\* str.strip() as float() applies it: leading and trailing blanks are dropped.
RECURSIVE LStrip(_)
LStrip(s) == IF s # <<>> /\ Head(s) = " " THEN LStrip(Tail(s)) ELSE s
RECURSIVE RStrip(_)
RStrip(s) ==
    IF s # <<>> /\ s[Len(s)] = " " THEN RStrip(SubSeq(s, 1, Len(s) - 1)) ELSE s
Strip(s) == RStrip(LStrip(s))

\* The value of a sequence of decimal digits.
RECURSIVE DecValue(_)
DecValue(ds) ==
    IF ds = <<>> THEN 0
    ELSE 10 * DecValue(SubSeq(ds, 1, Len(ds) - 1)) + DigitVal(ds[Len(ds)])

RECURSIVE Pow10(_)
Pow10(k) == IF k = 0 THEN 1 ELSE 10 * Pow10(k - 1)

\* r/den (0 <= r < den) to i more binary places, rounded to nearest, ties to
\* even: the decimal-to-binary conversion of the fraction digits.
RECURSIVE BinaryPlaces(_, _, _, _)
BinaryPlaces(r, den, i, acc) ==
    IF i = 0
    THEN IF 2 * r > den \/ (2 * r = den /\ acc % 2 = 1) THEN acc + 1 ELSE acc
    ELSE IF 2 * r >= den
         THEN BinaryPlaces(2 * r - den, den, i - 1, 2 * acc + 1)
         ELSE BinaryPlaces(2 * r, den, i - 1, 2 * acc)

\* The position of the "." in s, or Len(s) + 1 when there is none.
DotPos(s) ==
    IF \E i \in 1..Len(s) : s[i] = "."
    THEN CHOOSE i \in 1..Len(s) : s[i] = "." /\ \A j \in 1..(i - 1) : s[j] # "."
    ELSE Len(s) + 1

\* An unsigned decimal literal: digits with at most one ".", at least one digit.
IsDecimal(s) ==
    /\ \A i \in 1..Len(s) : IsDigit(s[i]) \/ i = DotPos(s)
    /\ \E i \in 1..Len(s) : IsDigit(s[i])

DecimalValue(s) ==
    LET d == DotPos(s)
        ip == SubSeq(s, 1, d - 1)
        fp == SubSeq(s, d + 1, Len(s))
    IN  DecValue(ip) * Unit + BinaryPlaces(DecValue(fp), Pow10(Len(fp)), 30, 0)

\* A faulty conversion: the sign of the literal is dropped.
ParseFloatUnsigned(s) ==
    LET b == Strip(s)
        signed == b # <<>> /\ Head(b) \in {"+", "-"}
        u == IF signed THEN Tail(b) ELSE b
    IN  IF IsDecimal(u) THEN [ok |-> TRUE, n |-> DecimalValue(u)]
        ELSE [ok |-> FALSE, n |-> 0]

\* float(s) for a str s: ok is FALSE where Python raises ValueError.  The
\* grammar covered is [blanks][sign]decimal[blanks]; exponents, "inf", "nan"
\* and digit-group underscores are not among the modelled inputs.
ParseFloat(s) ==
    LET b == Strip(s)
        signed == b # <<>> /\ Head(b) \in {"+", "-"}
        u == IF signed THEN Tail(b) ELSE b
    IN  IF IsDecimal(u)
        THEN [ok |-> TRUE,
              n |-> IF signed /\ Head(b) = "-" THEN -DecimalValue(u)
                    ELSE DecimalValue(u)]
        ELSE [ok |-> FALSE, n |-> 0]

\* ------------------------------------------------------------------ state

VARIABLES
    self,          \* the property group's hidden dictionary (data block items)
    lens,          \* the host's own single-precision value (cam.lens)
    location,      \* the host's own single-precision array (ob.location)
    cb_get,        \* whether double_property was given get=
    cb_set,        \* whether double_property was given set=
    arg_default,   \* float(kwargs.get('default', 0.0))
    last,          \* the last operation: its input, result and the state before
    written        \* the last write, and what happened since

vars == <<self, lens, location, cb_get, cb_set, arg_default, last, written>>

attr_name == "lens"

\* How many reads after a write are told apart.
MaxReads == 2

\* The hard range of the host's float property: assigning to it converts to
\* single precision and clamps into the range.
HostMin == -(2^24)
HostMax == 2^29 + 2^20

Clamp(n) == IF n < HostMin THEN HostMin ELSE IF n > HostMax THEN HostMax ELSE n

\* Doubles written through the property: within the absolute tolerance of
\* 0 (1), not representable in single precision (2^29 + 1), and above the
\* host's range (3 * 2^28).
Doubles == {1, 2^29 + 1, 3 * 2^28}

\* Strings written through the property: "0.5", " -.25 " (below the host's
\* range), "abc" and "".
Strings ==
    { <<"0", ".", "5">>, <<" ", "-", ".", "2", "5", " ">>,
      <<"a", "b", "c">>, <<>> }

\* Values the host passes to the mirror's set callback: single-precision floats.
Singles == {2, 2^29 + 64, 3 * 2^28}

\* Values the host's own property takes by an external change: 2^29 is
\* within the relative tolerance of 2^29 + 1, 2^29 + 5376 is not.
HostValues == {0, 2, 2^29, 2^29 + 5376}

Defaults == {0, 2^29 + 1}

EmptyItems == [k \in {} |-> None]

\* size= of the double_array properties.
arg_size == 3

\* np.zeros(shape=arg_size, dtype=np.float64)
Zeros == [i \in 1..arg_size |-> 0]

\* A faulty store: the value is narrowed to single precision on the way in.
SetItemSingle(slf, v) ==
    [k \in (DOMAIN slf) \cup {attr_name} |->
        IF k # attr_name THEN slf[k]
        ELSE IF v.t = "float" THEN [v EXCEPT !.n = RoundSingle(v.n)] ELSE v]

\* self.__setitem__(attr_name, v)
SetItem(slf, v) == [k \in (DOMAIN slf) \cup {attr_name} |-> IF k = attr_name THEN v ELSE slf[k]]

Event(e, v) == [e |-> e, v |-> v]

\* CameraProps._cb_get_lens: the host's current value.
CbGet(host) == Num(host)

\* CameraProps._cb_set_lens: cam.lens = value.  The host converts a float to
\* its storage and refuses anything else with a TypeError.
CbSet(host, value) ==
    IF value.t = "float"
    THEN [lens |-> Clamp(RoundSingle(value.n)), exc |-> "none"]
    ELSE [lens |-> host, exc |-> "TypeError"]

\* --------------------------------------------------------------- handlers

Result(slf, host, ret, exc, log) ==
    [self |-> slf, lens |-> host, ret |-> ret, exc |-> exc, log |-> log]

\* A faulty read: the stored value is handed out without asking the host.
GetPropValueStale(slf, host) ==
    Result(slf, host,
           IF attr_name \in DOMAIN slf THEN slf[attr_name] ELSE Num(arg_default),
           "none", <<>>)

\* A faulty read: a missing slot is filled with the default (setdefault).
GetPropValueSetDefault(slf, host) ==
    LET val == IF attr_name \in DOMAIN slf THEN slf[attr_name]
               ELSE Num(arg_default)
        res == GetPropValueStale(slf, host)
    IN  IF cb_get THEN res
        ELSE [res EXCEPT !.self = [k \in {attr_name} |-> val]]

\* A faulty read: the host's value is stored on every read, close or not.
GetPropValueAlwaysStore(slf, host) ==
    LET val == IF attr_name \in DOMAIN slf THEN slf[attr_name]
               ELSE Num(arg_default)
    IN  IF ~cb_get THEN Result(slf, host, val, "none", <<>>)
        ELSE IF val.t # "float"
        THEN Result(slf, host, None, "TypeError", <<Event("cb_get", Num(host))>>)
        ELSE Result([k \in {attr_name} |-> Num(host)], host, Num(host), "none",
                    <<Event("cb_get", Num(host)), Event("setitem", Num(host))>>)

\* double_property._get_prop_value
GetPropValue(slf, host) ==
    LET val == IF attr_name \in DOMAIN slf THEN slf[attr_name]
               ELSE Num(arg_default)
        existing_value == CbGet(host)
    IN  IF ~cb_get THEN Result(slf, host, val, "none", <<>>)
        ELSE IF val.t # "float"
        THEN \* math.isclose refuses a str
             Result(slf, host, None, "TypeError",
                    <<Event("cb_get", existing_value)>>)
        ELSE IF ~IsClose(val.n, existing_value.n)
        THEN Result(SetItem(slf, existing_value), host, existing_value, "none",
                    <<Event("cb_get", existing_value),
                      Event("setitem", existing_value)>>)
        ELSE Result(slf, host, val, "none",
                    <<Event("cb_get", existing_value)>>)

\* The string-to-float coercion at the head of _set_prop_value: a failed
\* conversion leaves the string as it is.
Coerce(new_value) ==
    IF new_value.t = "str"
    THEN LET f == ParseFloat(new_value.s)
         IN  IF f.ok THEN Num(f.n) ELSE new_value
    ELSE new_value

\* A faulty write: the value is stored, the host is not told.
SetPropValueNoCallback(slf, host, new_value) ==
    Result(SetItem(slf, Coerce(new_value)), host, None, "none",
           <<Event("setitem", Coerce(new_value))>>)

\* A faulty write: the host is told before the value is stored.
SetPropValueCallbackFirst(slf, host, new_value) ==
    LET value == IF new_value.t = "str" /\ ParseFloat(new_value.s).ok
                 THEN Num(ParseFloat(new_value.s).n) ELSE new_value
        stored == [k \in {attr_name} |-> value]
    IN  IF cb_set
        THEN Result(stored,
                    IF value.t = "float" THEN Clamp(RoundSingle(value.n)) ELSE host,
                    None, IF value.t = "float" THEN "none" ELSE "TypeError",
                    <<Event("cb_set", value), Event("setitem", value)>>)
        ELSE Result(stored, host, None, "none", <<Event("setitem", value)>>)

\* double_property._set_prop_value
SetPropValue(slf, host, new_value) ==
    LET value == Coerce(new_value)
        stored == SetItem(slf, value)
    IN  IF cb_set
        THEN Result(stored, CbSet(host, value).lens, None,
                    CbSet(host, value).exc,
                    <<Event("setitem", value), Event("cb_set", value)>>)
        ELSE Result(stored, host, None, "none", <<Event("setitem", value)>>)

\* double_property._get_accessor_value: getattr(self, attr_name, arg_default).
\* The attribute always exists, so the getattr default is never used.
GetAccessorValue(slf, host) == GetPropValue(slf, host)

\* double_property._set_accessor_value: setattr(self, attr_name, new_value)
SetAccessorValue(slf, host, new_value) == SetPropValue(slf, host, new_value)

\* What the host makes of the value its FloatProperty get callback returned:
\* a float is converted to single precision, anything else is an error.
FloatPropertyGet(res) ==
    IF res.exc # "none" THEN res
    ELSE IF res.ret.t = "float"
    THEN [res EXCEPT !.ret = Num(RoundSingle(res.ret.n))]
    ELSE [res EXCEPT !.ret = None, !.exc = "TypeError"]

\* ---------------------------------------------------------------- actions

Last(op, arg, res) ==
    [op |-> op, arg |-> arg, ret |-> res.ret, exc |-> res.exc, log |-> res.log,
     pre |-> self, host_pre |-> lens]

NoWrite == [via |-> "none", v |-> None, dirty |-> FALSE, reads |-> 0]

CountRead == [written EXCEPT !.reads = IF @ < MaxReads THEN @ + 1 ELSE @]

Init ==
    /\ self = EmptyItems
    /\ lens \in HostValues
    /\ location = Zeros
    /\ cb_get \in BOOLEAN
    /\ cb_set \in BOOLEAN
    /\ arg_default \in Defaults
    /\ last = Last("init", None, Result(self, lens, None, "none", <<>>))
    /\ written = NoWrite

\* value = props.lens
ReadProp ==
    LET res == GetPropValue(self, lens)
    IN  /\ self' = res.self
        /\ last' = Last("get_prop", None, res)
        /\ written' = CountRead
        /\ UNCHANGED <<lens, location, cb_get, cb_set, arg_default>>

\* props.lens = new_value
WriteProp ==
    \E new_value \in {Num(d) : d \in Doubles} \cup {Str(s) : s \in Strings} :
        LET res == SetPropValue(self, lens, new_value)
        IN  /\ self' = res.self
            /\ lens' = res.lens
            /\ last' = Last("set_prop", new_value, res)
            /\ written' = [via |-> "prop", v |-> new_value, dirty |-> FALSE,
                           reads |-> 0]
            /\ UNCHANGED <<location, cb_get, cb_set, arg_default>>

\* value = props.s_lens
ReadMirror ==
    LET res == FloatPropertyGet(GetAccessorValue(self, lens))
    IN  /\ self' = res.self
        /\ last' = Last("get_accessor", None, res)
        /\ written' = CountRead
        /\ UNCHANGED <<lens, location, cb_get, cb_set, arg_default>>

\* props.s_lens = w
WriteMirror ==
    \E w \in Singles :
        LET res == SetAccessorValue(self, lens, Num(w))
        IN  /\ self' = res.self
            /\ lens' = res.lens
            /\ last' = Last("set_accessor", Num(w), res)
            /\ written' = [via |-> "accessor", v |-> Num(w), dirty |-> FALSE,
                           reads |-> 0]
            /\ UNCHANGED <<location, cb_get, cb_set, arg_default>>

\* cam.lens = h, by the user or another script, past the shim
HostChange ==
    \E h \in HostValues :
        /\ h # lens
        /\ lens' = h
        /\ last' = Last("host", Num(h), Result(self, h, None, "none", <<>>))
        /\ written' = [written EXCEPT !.dirty = TRUE]
        /\ UNCHANGED <<self, location, cb_get, cb_set, arg_default>>

Next == ReadProp \/ WriteProp \/ ReadMirror \/ WriteMirror \/ HostChange

Spec == Init /\ [][Next]_vars

\* ----------------------------------------------------------------- claims

Present(slf) == attr_name \in DOMAIN slf

\* The comparison tolerance as the claims state it (rel 1e-5 / abs 1e-9),
\* on grid numbers: 1e-9 is one grid step, 1e-5 is a 100000th.
WithinTolerance(a, b) ==
    LET d == IF a >= b THEN a - b ELSE b - a
    IN  d <= 1 \/ d <= Abs(a) \div 100000 \/ d <= Abs(b) \div 100000

IsRead == last.op \in {"get_prop", "get_accessor"}

\* C1: with get and set callbacks, after a number v is written through the
\* double-precision property and the host stores a value within the
\* tolerance of v, every read of the property returns exactly v and the
\* hidden slot holds exactly v, until the next write or external host change.
C1_ExactRoundTrip ==
    ( /\ cb_get /\ cb_set
      /\ written.via = "prop" /\ written.v.t = "float" /\ ~written.dirty
      /\ WithinTolerance(lens, written.v.n) )
    => /\ Present(self) /\ self[attr_name] = written.v
       /\ last.op = "get_prop" => (last.exc = "none" /\ last.ret = written.v)

\* C1's case: v = 0.5 + 2^-30 is stored by the host as 0.5, and v is read
\* back repeatedly.
C1_Witness ==
    /\ cb_get /\ cb_set
    /\ written = [via |-> "prop", v |-> Num(2^29 + 1), dirty |-> FALSE,
                  reads |-> MaxReads]
    /\ lens = 2^29
    /\ last.op = "get_prop" /\ last.ret = Num(2^29 + 1)

\* C2: without callbacks, after a number v is written through the
\* double-precision property the hidden slot is present and holds exactly v,
\* and every read of the property returns exactly v.
C2_PlainRoundTrip ==
    (~cb_get /\ ~cb_set /\ written.via = "prop" /\ written.v.t = "float")
    => /\ Present(self) /\ self[attr_name] = written.v
       /\ last.op = "get_prop" => (last.exc = "none" /\ last.ret = written.v)

C2_Witness ==
    /\ ~cb_get /\ ~cb_set
    /\ written.via = "prop" /\ written.v = Num(2^29 + 1)
    /\ written.reads = MaxReads
    /\ last.op = "get_prop" /\ last.ret = Num(2^29 + 1)

\* C3 as stated: without a get callback and before any write, a read of the
\* property and a read of the mirror both return the default value, and no
\* read creates the hidden slot.
C3_DefaultFallback_Original ==
    (~cb_get /\ written.via = "none")
    => /\ ~Present(self)
       /\ IsRead => (last.exc = "none" /\ last.ret = Num(arg_default))

\* C3 amended: as above, but the mirror returns the default converted to
\* single precision.
C3_DefaultFallback ==
    (~cb_get /\ written.via = "none")
    => /\ ~Present(self)
       /\ last.op = "get_prop"
            => (last.exc = "none" /\ last.ret = Num(arg_default))
       /\ last.op = "get_accessor"
            => (last.exc = "none" /\ last.ret = Num(RoundSingle(arg_default)))

\* C3's case: the mirror is read again and again on a fresh instance whose
\* default is not a single-precision number.
C3_Witness ==
    /\ ~cb_get /\ written.via = "none" /\ written.reads = MaxReads
    /\ last.op = "get_accessor" /\ last.ret # Num(arg_default)
    /\ ~Present(self)

HasEvent(e, v) == \E i \in 1..Len(last.log) : last.log[i] = Event(e, v)

\* Reads that follow a mirror write directly (no other write, no external
\* host change in between).
AfterMirrorWrite == written.via = "accessor" /\ ~written.dirty

\* C5 as stated: a write of w through the mirror stores w in the hidden slot
\* and passes w to the set callback when there is one; afterwards a read of
\* the mirror, a read of the property and, with callbacks, the host's own
\* value all agree with w within the tolerance.
C5_MirrorWrite_Original ==
    /\ last.op = "set_accessor"
         => /\ Present(self) /\ self[attr_name] = last.arg
            /\ cb_set => HasEvent("cb_set", last.arg)
    /\ (AfterMirrorWrite /\ IsRead)
         => (last.exc = "none" /\ WithinTolerance(last.ret.n, written.v.n))
    /\ (AfterMirrorWrite /\ cb_get /\ cb_set)
         => WithinTolerance(lens, written.v.n)

\* C5 amended: a write of w through the mirror stores w in the hidden slot
\* and passes w to the set callback when there is one; the host then holds w
\* clamped into its range.  Afterwards a read of the mirror and a read of the
\* property agree with w within the tolerance provided no get callback is
\* given or the host's value is within the tolerance of w.
C5_MirrorWrite ==
    /\ last.op = "set_accessor"
         => /\ Present(self) /\ self[attr_name] = last.arg
            /\ last.exc = "none"
            /\ cb_set => (HasEvent("cb_set", last.arg)
                          /\ lens = Clamp(last.arg.n))
    /\ ( /\ AfterMirrorWrite /\ IsRead
         /\ ~cb_get \/ WithinTolerance(lens, written.v.n) )
         => (last.exc = "none" /\ WithinTolerance(last.ret.n, written.v.n))

\* C5's case: w went to the host through the set callback and both reads
\* came back with it.
C5_Witness ==
    /\ cb_get /\ cb_set /\ AfterMirrorWrite
    /\ written.v = Num(2^29 + 64) /\ lens = 2^29 + 64
    /\ written.reads = MaxReads
    /\ last.op = "get_prop" /\ last.ret = written.v

\* C6: in every reachable state a read of the mirror yields what a read of
\* the property would yield there, converted to single precision, and has
\* the same effect on the hidden slot.
C6_MirrorFollowsProperty ==
    last.op = "get_accessor"
    => LET r == GetPropValue(last.pre, last.host_pre)
       IN  /\ r.exc = last.exc
           /\ r.exc = "none"
                => (r.ret.t = "float" /\ last.ret = Num(RoundSingle(r.ret.n)))
           /\ self = r.self

\* C7: with a get callback, when the host's value differs from the stored
\* double-precision value (from the default, when the slot is absent) by
\* more than the tolerance, a read of the property returns the host's value
\* and overwrites the hidden slot with it.
C7_ReconcileOnRead ==
    LET val == IF Present(last.pre) THEN last.pre[attr_name]
               ELSE Num(arg_default)
    IN  ( /\ cb_get /\ last.op = "get_prop" /\ val.t = "float"
          /\ ~WithinTolerance(val.n, last.host_pre) )
        => /\ last.exc = "none" /\ last.ret = Num(last.host_pre)
           /\ Present(self) /\ self[attr_name] = Num(last.host_pre)

\* C7's case: the slot held a written value, the host was changed past the
\* shim, and the read replaced the slot.
C7_Witness ==
    /\ cb_get /\ last.op = "get_prop" /\ written.dirty
    /\ Present(last.pre) /\ last.pre[attr_name] = Num(2^29 + 1)
    /\ last.host_pre = 2^29 + 5376
    /\ self[attr_name] = Num(2^29 + 5376)

\* A string that float() refuses.
Unconvertible(v) == v.t = "str" /\ v.s \in { <<"a", "b", "c">>, <<>> }

\* C8: a write of a string that cannot be converted to a number completes
\* without raising.
C8_FailedConversionIgnored ==
    (last.op = "set_prop" /\ Unconvertible(last.arg)) => last.exc = "none"

\* C9: the hidden slot, when present, holds a number, and every read of the
\* property completes and returns a number.
C9_SlotIsNumber ==
    /\ Present(self) => self[attr_name].t = "float"
    /\ last.op = "get_prop" => (last.exc = "none" /\ last.ret.t = "float")

\* The numbers the written strings denote: "0.5" and " -.25 ".
Denotes(s, n) ==
    \/ s = <<"0", ".", "5">> /\ n = 2^29
    \/ s = <<" ", "-", ".", "2", "5", " ">> /\ n = -(2^28)

\* C10: a write of a string that converts to the number n has the effect of
\* a write of n: the slot holds the number n, the set callback receives n.
C10_StringCoercion ==
    \A n \in {2^29, -(2^28)} :
        (last.op = "set_prop" /\ last.arg.t = "str" /\ Denotes(last.arg.s, n))
        => LET w == SetPropValue(last.pre, last.host_pre, Num(n))
           IN  /\ Present(self) /\ self[attr_name] = Num(n)
               /\ cb_set => HasEvent("cb_set", Num(n))
               /\ self = w.self /\ lens = w.lens
               /\ last.exc = w.exc /\ last.log = w.log

C10_Witness ==
    /\ last.op = "set_prop" /\ last.arg = Str(<<" ", "-", ".", "2", "5", " ">>)
    /\ cb_set /\ self[attr_name] = Num(-(2^28)) /\ lens = HostMin

\* C11: a read of the property leaves the hidden slot as it was whenever no
\* get callback is given or the host's value is within the tolerance of the
\* stored value (of the default, when the slot is absent); and of two reads
\* in a row, the second has the outcome of the first and changes nothing.
C11_ReadFrame ==
    /\ [][ (last'.op = "get_prop"
            /\ LET val == IF Present(self) THEN self[attr_name]
                          ELSE Num(arg_default)
               IN  ~cb_get \/ (val.t = "float" /\ WithinTolerance(val.n, lens)))
           => self' = self ]_vars
    /\ [][ (last.op = "get_prop" /\ last'.op = "get_prop")
           => (last'.ret = last.ret /\ last'.exc = last.exc /\ self' = self) ]_vars

\* C11's case: two reads after a write whose value the host holds rounded;
\* the slot still holds the written value.
C11_Witness ==
    /\ cb_get /\ last.op = "get_prop" /\ written.reads = MaxReads
    /\ ~written.dirty /\ written.via = "prop"
    /\ last.pre = self /\ Present(self)
    /\ self[attr_name] = Num(2^29 + 1) /\ lens = 2^29

\* C12: with a get callback, every read of the property returns a value
\* within the tolerance of the host's value at that time, and right after the
\* read the hidden slot, when present, is within the tolerance of it too.
C12_ReadTracksHost ==
    (cb_get /\ last.op = "get_prop")
    => /\ last.exc = "none" /\ last.ret.t = "float"
       /\ WithinTolerance(last.ret.n, last.host_pre)
       /\ Present(self)
            => (self[attr_name].t = "float"
                /\ WithinTolerance(self[attr_name].n, lens))

IsWrite == last.op \in {"set_prop", "set_accessor"}

\* C13: every write, through the property or through the mirror, first
\* stores the value in the hidden slot and then invokes the set callback,
\* when one is given, exactly once with that same value; it never invokes the
\* get callback.
C13_WriteCallsSetOnce ==
    IsWrite
    => /\ Present(self)
       /\ last.op = "set_accessor" => self[attr_name] = last.arg
       /\ last.log = IF cb_set
                     THEN <<Event("setitem", self[attr_name]),
                            Event("cb_set", self[attr_name])>>
                     ELSE <<Event("setitem", self[attr_name])>>

\* C13's case: a mirror write that reached the set callback.
C13_Witness ==
    /\ cb_set /\ last.op = "set_accessor" /\ Len(last.log) = 2
    /\ last.log[2] = Event("cb_set", Num(2^29 + 64))

\* ------------------------------------------------------------ double_array
\* The hidden slot of a double_array holds a float64 array, modelled as the
\* sequence of its elements; the host's array (ob.location) holds single-
\* precision numbers.  In SpecArray self, location, cb_get, cb_set and
\* arg_default are those of a double_array("location", size=arg_size, ...).

array_attr_name == "location"

Arr(a) == [t |-> "ndarray", a |-> a]

\* One element of np.allclose(val, existing_arr, rtol=1e-5, atol=1e-9):
\* |a - b| <= atol + rtol * |b|, with b the host's element.  With
\* |b| = q * 100000 + r this is (d - q) * 10^9 <= 2^30 + r * 10^4.
ElemClose(a, b) ==
    LET d == Abs(a - b)
        q == Abs(b) \div RelTolDen
        r == Abs(b) % RelTolDen
    IN  \/ d <= q
        \/ d - q <= 2 /\ (d - q) * AbsTolDen <= Unit + r * (AbsTolDen \div RelTolDen)

\* np.allclose on two arrays of arg_size elements.
AllClose(val, existing_arr) ==
    \A i \in 1..arg_size : ElemClose(val[i], existing_arr[i])

\* np.array(new_value, dtype=np.float64): every element becomes a float, a
\* str by its float value; ok is FALSE where numpy raises ValueError.
ToArray(new_value) ==
    LET conv(v) == IF v.t = "str" THEN ParseFloat(v.s) ELSE [ok |-> TRUE, n |-> v.n]
    IN  IF \A i \in 1..Len(new_value) : conv(new_value[i]).ok
        THEN [ok |-> TRUE, a |-> [i \in 1..Len(new_value) |-> conv(new_value[i]).n]]
        ELSE [ok |-> FALSE, a |-> <<>>]

\* self.__setitem__(attr_name, val) of a double_array
SetArrayItem(slf, a) ==
    [k \in (DOMAIN slf) \cup {array_attr_name} |->
        IF k = array_attr_name THEN Arr(a) ELSE slf[k]]

ArrayResult(slf, host, ret, exc, log) ==
    [self |-> slf, location |-> host, ret |-> ret, exc |-> exc, log |-> log]

\* ObjectProps._get_location: ob.location
CbGetLocation(host) == host

\* ObjectProps._set_location: the three translation entries of
\* ob.matrix_world are assigned one after the other, each narrowed to single
\* precision; a value with fewer elements ends in IndexError after the
\* entries it does have are assigned.
CbSetLocation(host, value) ==
    [location |-> [i \in 1..arg_size |->
                      IF i <= Len(value) THEN RoundSingle(value[i]) ELSE host[i]],
     exc |-> IF Len(value) < arg_size THEN "IndexError" ELSE "none"]

\* A faulty read: only the elements that differ are taken from the host.
ArrayGetPropValueElementwise(slf, host) ==
    LET val == IF array_attr_name \in DOMAIN slf THEN slf[array_attr_name].a
               ELSE arg_default
        merged == [i \in 1..arg_size |->
                      IF ElemClose(val[i], host[i]) THEN val[i] ELSE host[i]]
    IN  IF Len(val) # arg_size
        THEN ArrayResult(slf, host, None, "ValueError", <<>>)
        ELSE IF ~cb_get THEN ArrayResult(slf, host, Arr(val), "none", <<>>)
        ELSE IF merged # val
        THEN ArrayResult(SetArrayItem(slf, merged), host, Arr(merged), "none",
                         <<Event("cb_get", Arr(host)), Event("setitem", Arr(merged))>>)
        ELSE ArrayResult(slf, host, Arr(val), "none", <<Event("cb_get", Arr(host))>>)

\* double_array._get_prop_value
ArrayGetPropValue(slf, host) ==
    LET val == IF array_attr_name \in DOMAIN slf THEN slf[array_attr_name].a
               ELSE arg_default
        existing_arr == CbGetLocation(host)
    IN  IF Len(val) # arg_size
        THEN \* reshape(arg_size) refuses an array of another size
             ArrayResult(slf, host, None, "ValueError", <<>>)
        ELSE IF ~cb_get THEN ArrayResult(slf, host, Arr(val), "none", <<>>)
        ELSE IF ~AllClose(val, existing_arr)
        THEN ArrayResult(SetArrayItem(slf, existing_arr), host, Arr(existing_arr),
                         "none",
                         <<Event("cb_get", Arr(existing_arr)),
                           Event("setitem", Arr(existing_arr))>>)
        ELSE ArrayResult(slf, host, Arr(val), "none",
                         <<Event("cb_get", Arr(existing_arr))>>)

\* A faulty write: a failed conversion is passed over, as in the scalar
\* property, and the elements that did convert are stored and handed on.
ArraySetPropValueLenient(slf, host, new_value) ==
    LET conv(v) == IF v.t = "str" THEN ParseFloat(v.s) ELSE [ok |-> TRUE, n |-> v.n]
        val == [i \in 1..Len(new_value) |-> conv(new_value[i]).n]
    IN  IF cb_set
        THEN ArrayResult(SetArrayItem(slf, val), CbSetLocation(host, val).location,
                         None, CbSetLocation(host, val).exc,
                         <<Event("setitem", Arr(val)), Event("cb_set", Arr(val))>>)
        ELSE ArrayResult(SetArrayItem(slf, val), host, None, "none",
                         <<Event("setitem", Arr(val))>>)

\* double_array._set_prop_value
ArraySetPropValue(slf, host, new_value) ==
    LET val == ToArray(new_value)
    IN  IF ~val.ok THEN ArrayResult(slf, host, None, "ValueError", <<>>)
        ELSE IF cb_set
        THEN ArrayResult(SetArrayItem(slf, val.a),
                         CbSetLocation(host, val.a).location, None,
                         CbSetLocation(host, val.a).exc,
                         <<Event("setitem", Arr(val.a)), Event("cb_set", Arr(val.a))>>)
        ELSE ArrayResult(SetArrayItem(slf, val.a), host, None, "none",
                         <<Event("setitem", Arr(val.a))>>)

\* Values written to the array property: doubles the host cannot hold exactly,
\* a numeric string, a string numpy refuses, and a value of the wrong size.
ArrayWrites ==
    { <<Num(2^29 + 1), Num(0), Num(1)>>,
      <<Str(<<"0", ".", "5">>), Num(0), Num(0)>>,
      <<Num(0), Str(<<"a", "b", "c">>), Num(0)>>,
      <<Num(1), Num(2)>> }

\* Values the host's array takes by an external change.
HostArrays == { Zeros, <<2^29, 0, 0>>, <<2^29, 2, 0>> }

\* default= of the array property: np.zeros when none is given.
ArrayDefaults == { Zeros, <<2^29 + 1, 0, 0>> }

ArrayLast(op, arg, res) ==
    [op |-> op, arg |-> arg, ret |-> res.ret, exc |-> res.exc, log |-> res.log,
     pre |-> self, host_pre |-> location]

InitArray ==
    /\ self = EmptyItems
    /\ lens = 0
    /\ location \in HostArrays
    /\ cb_get \in BOOLEAN
    /\ cb_set \in BOOLEAN
    /\ arg_default \in ArrayDefaults
    /\ last = ArrayLast("init", None, ArrayResult(self, location, None, "none", <<>>))
    /\ written = NoWrite

\* value = props.location
ArrayRead ==
    LET res == ArrayGetPropValue(self, location)
    IN  /\ self' = res.self
        /\ last' = ArrayLast("get_array", None, res)
        /\ UNCHANGED <<lens, location, cb_get, cb_set, arg_default, written>>

\* props.location = new_value
ArrayWrite ==
    \E new_value \in ArrayWrites :
        LET res == ArraySetPropValue(self, location, new_value)
        IN  /\ self' = res.self
            /\ location' = res.location
            /\ last' = ArrayLast("set_array", new_value, res)
            /\ UNCHANGED <<lens, cb_get, cb_set, arg_default, written>>

\* ob.location = h, by the user or another script, past the shim
ArrayHostChange ==
    \E h \in HostArrays :
        /\ h # location
        /\ location' = h
        /\ last' = ArrayLast("host", Arr(h),
                             ArrayResult(self, h, None, "none", <<>>))
        /\ UNCHANGED <<self, lens, cb_get, cb_set, arg_default, written>>

NextArray == ArrayRead \/ ArrayWrite \/ ArrayHostChange

SpecArray == InitArray /\ [][NextArray]_vars

\* ------------------------------------------------------- double_array claims

ArrayPresent(slf) == array_attr_name \in DOMAIN slf

\* The array comparison's tolerance as a bound on the difference: the
\* absolute part (1e-9, 2^30/10^9 grid steps) plus the relative part (1e-5 of
\* the host's element h), rounded down to whole grid steps.
ElemTolerance(h) ==
    LET m == IF h < 0 THEN -h ELSE h
    IN  m \div 100000 + (2^30 + (m % 100000) * 10000) \div 1000000000

ElemWithinTolerance(stored, h) ==
    (IF stored >= h THEN stored - h ELSE h - stored) <= ElemTolerance(h)

\* What C14 says of a read that found val stored (or as the default).
ArrayReadAsClaimed(val) ==
    /\ cb_get =>
         /\ last.exc = "none"
         /\ IF \E i \in 1..arg_size :
                  ~ElemWithinTolerance(val[i], last.host_pre[i])
            THEN /\ last.ret = Arr(last.host_pre)
                 /\ ArrayPresent(self)
                 /\ self[array_attr_name] = Arr(last.host_pre)
            ELSE last.ret = Arr(val) /\ self = last.pre
    /\ (~cb_get /\ ~ArrayPresent(last.pre))
         => /\ last.exc = "none"
            /\ last.ret = Arr(arg_default) /\ ~ArrayPresent(self)

StoredOrDefault ==
    IF ArrayPresent(last.pre) THEN last.pre[array_attr_name].a ELSE arg_default

\* C14 as stated: a read of a double_array with a get callback replaces the
\* whole stored array (the default, when the slot is absent) by the host's
\* array and returns the host's array when any element differs by more than
\* the tolerance; when every element is within the tolerance it returns the
\* stored array and leaves the hidden slot as it was.  Without a get callback
\* and with the slot absent it returns the default and creates no slot.
C14_ArrayAllOrNothing_Original ==
    last.op = "get_array" => ArrayReadAsClaimed(StoredOrDefault)

\* C14 amended: the above holds of every read that finds an array of the
\* property's size stored; a stored array of another size makes the read
\* fail with an error, and the read changes nothing.
C14_ArrayAllOrNothing ==
    last.op = "get_array"
    => IF Len(StoredOrDefault) = arg_size
       THEN ArrayReadAsClaimed(StoredOrDefault)
       ELSE last.exc = "ValueError" /\ self = last.pre

\* C14's case: one element differs beyond the tolerance, another only within
\* it, and the read replaced both.
C14_Witness ==
    /\ cb_get /\ last.op = "get_array"
    /\ ArrayPresent(last.pre)
    /\ last.pre[array_attr_name] = Arr(<<2^29 + 1, 0, 1>>)
    /\ last.host_pre = <<2^29, 2, 0>>
    /\ self[array_attr_name] = Arr(<<2^29, 2, 0>>)

\* An element numpy cannot convert to a number.
BadElement(new_value) ==
    \E i \in 1..Len(new_value) : Unconvertible(new_value[i])

\* C15: a double_array write whose value cannot be converted to an array of
\* numbers fails with an error and changes nothing: the slot keeps its value
\* or stays absent and the set callback is not invoked; any other write stores
\* the converted array in the slot and then invokes the set callback, when
\* one is given, exactly once with it.
C15_ArrayWrite ==
    last.op = "set_array"
    => IF BadElement(last.arg)
       THEN /\ last.exc = "ValueError"
            /\ self = last.pre /\ location = last.host_pre
            /\ last.log = <<>>
       ELSE /\ last.exc # "ValueError"
            /\ ArrayPresent(self)
            /\ Len(self[array_attr_name].a) = Len(last.arg)
            /\ \A i \in 1..Len(last.arg) :
                 last.arg[i].t = "float"
                   => self[array_attr_name].a[i] = last.arg[i].n
            /\ last.arg[1] = Str(<<"0", ".", "5">>)
                 => self[array_attr_name].a[1] = 2^29
            /\ last.log = IF cb_set
                          THEN <<Event("setitem", self[array_attr_name]),
                                 Event("cb_set", self[array_attr_name])>>
                          ELSE <<Event("setitem", self[array_attr_name])>>

\* C15's case: a refused write on an instance whose slot and set callback
\* exist; the slot and the host are as before.
C15_Witness ==
    /\ cb_set /\ last.op = "set_array" /\ last.exc = "ValueError"
    /\ ArrayPresent(last.pre) /\ self = last.pre
    /\ self[array_attr_name] = Arr(<<2^29 + 1, 0, 1>>)

====
